---- MODULE Spec2Model ----
(***************************************************************************)
(* Recursive sitemap resolution of madoper/parser.                         *)
(*                                                                         *)
(* The model follows backend/src/core/parsing/sitemap_parser.py            *)
(* (SitemapParser) and backend/src/services/parsing_service.py             *)
(* (ParsingService.parse_sitemap).  The two mutually recursive coroutines  *)
(* parse_sitemap_url and process_sitemap_index run on one explicit call    *)
(* stack; a web site is a map from sitemap URLs to the outcome of fetching *)
(* them, filled in the first time a URL is requested.                      *)
(*                                                                         *)
(* A second specification, CallSpec, calls the parser's methods on their   *)
(* own (parse_sitemap_xml, _extract_sitemap_locations, handle_gzip_sitemap,*)
(* parse_sitemap_url on one response, discover_sitemap) on documents given *)
(* element by element, content given byte by byte and robots.txt given     *)
(* line by line.  It also holds the HTTP route of api/v1/sitemap.py with   *)
(* the Celery task of tasks.py, the task registry of ParsingService, and   *)
(* two coroutines that share one SitemapParser.                            *)
(*                                                                         *)
(* A third specification, CallerSpec, is the resolution together with what *)
(* its caller may do to it: resolve again on the same parser, or cancel.   *)
(***************************************************************************)
EXTENDS Integers, Sequences, FiniteSets, TLC

\* ------------------------------------------------------------------ bounds
\* Largest number of <sitemap> references in all the indexes of a site.
MaxRefs == 3
\* Largest max_depth handed to a resolution.
MaxDepth == 3
\* settings.MAX_URLS_PER_SITEMAP, scaled down from its default of 50000.
MAX_URLS_PER_SITEMAP == 2

\* Largest number of elements in the document of a fetched response.
MaxFetchedElems == 1
\* Largest number of bytes handed to gzip.
MaxBytes == 3
\* Largest number of lines in a robots.txt.
MaxLines == 2
\* Largest number of update_task_status calls on one service.
MaxUpdates == 2

\* A site of MaxRefs references has at most MaxRefs + 1 sitemaps that a
\* resolution can reach, and a leaf may list more entries than the limit.
NumUrls == MaxRefs + 1
MaxEntries == MAX_URLS_PER_SITEMAP + 1

Urls == 1..NumUrls
RootUrl == 1
None == "None"

\* ------------------------------------------------------------ the web site
\* Every way in which fetching and decoding one sitemap can fail.
FailureKinds == {"network", "http_status", "invalid_url", "gzip", "xml"}

\* The exception each failure raises inside parse_sitemap_url.
ExceptionOf(kind) ==
    CASE kind = "network"     -> "HTTPError"
      [] kind = "http_status" -> "HTTPError"
      [] kind = "invalid_url" -> "Exception"
      [] kind = "gzip"        -> "Exception"
      [] kind = "xml"         -> "ParseError"

\* What a URL serves: a failure, a document whose root tag is sitemapindex
\* (its <sitemap><loc> references, in document order) or any other document
\* (the number of its <url> entries that have a <loc>).
Unfetched == [kind |-> "unfetched", refs |-> <<>>, entries |-> 0]
FailDoc   == [kind |-> "fail", refs |-> <<>>, entries |-> 0]

\* ------------------------------------------------------------------- state
VARIABLES
    pc,                 \* position of ParsingService.parse_sitemap
    probe,              \* discover_sitemap: index of the path probed next
    max_depth,          \* the max_depth argument of the resolution
    stack,              \* call stack of the traversal, innermost frame last
    retval,             \* value or exception handed to the resumed caller
    site,               \* what each URL serves, once it has been requested
    processed_indices,  \* SitemapParser.processed_indices
    discovered_urls,    \* SitemapParser.discovered_urls
    result,             \* the dict returned by ParsingService.parse_sitemap
    fetchCount,         \* history: GET requests issued so far, per URL
    returned,           \* history: completed parse_sitemap_url calls
    closed,             \* history: calls of SitemapParser.close so far
    call                \* a parser method called on its own: arguments, result

vars == <<pc, probe, max_depth, stack, retval, site, processed_indices,
          discovered_urls, result, fetchCount, returned, closed, call>>

\* What a finished call hands to its caller: a returned list or a raised
\* exception; failure names the failure a returning call has handled.
NoRet == [kind |-> "none", urls |-> <<>>, exc |-> None, failure |-> None]
Return(urls) ==
    [kind |-> "return", urls |-> urls, exc |-> None, failure |-> None]
Handled(failure) ==
    [kind |-> "return", urls |-> <<>>, exc |-> None, failure |-> failure]
Raise(exc) ==
    [kind |-> "raise", urls |-> <<>>, exc |-> exc, failure |-> None]

ParseFrame(url, depth) ==
    [fn |-> "parse_sitemap_url", url |-> url, max_depth |-> depth,
     sitemaps |-> <<>>, i |-> 0, all_urls |-> <<>>, followed |-> <<>>]
IndexFrame(sitemaps, depth) ==
    [fn |-> "process_sitemap_index", url |-> 0, max_depth |-> depth,
     sitemaps |-> sitemaps, i |-> 1, all_urls |-> <<>>, followed |-> <<>>]

Top == stack[Len(stack)]
Pop == SubSeq(stack, 1, Len(stack) - 1)
ReplaceTop(f) == [stack EXCEPT ![Len(stack)] = f]

\* --------------------------------------------------------- pure functions
\* The page URL extracted from entry k of the document served at url; the
\* pair keeps apart the entries of different documents, so that the lists
\* built from them show how often each document was counted.
PageUrl(url, k) == <<url, k>>
\* The bare site URL of a request that names no sitemap.
SiteUrl == <<0, 0>>

\* discover_sitemap: the conventional paths, in probing order.
paths_index_first ==
    <<"/sitemap_index.xml", "/sitemap.xml", "/sitemap.xml.gz",
      "/sitemap/sitemap.xml">>
common_paths ==
    <<"/sitemap.xml", "/sitemap_index.xml", "/sitemap.xml.gz",
      "/sitemap/sitemap.xml">>

\* parse_sitemap_xml: the loop over the <url> entries; the limit is tested
\* after the append.
RECURSIVE ExtractLoop(_, _, _, _)
ExtractLoop(url, entries, k, urls) ==
    IF k > entries THEN urls
    ELSE LET appended == Append(urls, PageUrl(url, k))
         IN  IF Len(appended) >= MAX_URLS_PER_SITEMAP THEN appended
             ELSE ExtractLoop(url, entries, k + 1, appended)

parse_sitemap_xml(doc, base_url) == ExtractLoop(base_url, doc.entries, 1, <<>>)

\* _extract_sitemap_locations: the <loc> of each <sitemap>, document order.
extract_sitemap_locations(doc) == doc.refs

\* The except clauses of parse_sitemap_url; Exception is the base class.
HandlersWithoutCatchAll == {"HTTPError", "ParseError"}
ParseUrlHandlers == {"HTTPError", "ParseError", "Exception"}
CaughtBy(handlers, exc) == exc \in handlers \/ "Exception" \in handlers

\* `if max_depth > 0` and `max_depth - 1` of parse_sitemap_url.
MayRecurseAtZero(depth) == depth >= 0
MayRecurse(depth) == depth > 0
SameDepth(depth) == depth
ChildDepth(depth) == depth - 1

\* `if sitemap_url in self.processed_indices` of process_sitemap_index.
NeverProcessed(url, processed) == FALSE
AlreadyProcessed(url, processed) == url \in processed

\* process_sitemap_index: self.processed_indices.add(sitemap_url).
add_nothing(processed, url) == processed
add(processed, url) == processed \cup {url}

\* `all_urls.extend(urls)` of process_sitemap_index.
Overwrite(all_urls, urls) == urls
Prepend(all_urls, urls) == urls \o all_urls
Extend(all_urls, urls) == all_urls \o urls

\* The `for sitemap_url in sitemaps` loop moving to its next element.
SameReference(i) == i
NextReference(i) == i + 1

SeqToSet(s) == {s[k] : k \in 1..Len(s)}

\* -------------------------------------------------------------------- Init
\* No parser method is being called on its own.
NoCall == [fn |-> "none"]

EmptyResult ==
    [urls |-> <<>>, total_urls |-> 0, status |-> "success", error |-> None,
     completed |-> FALSE]

Init ==
    /\ pc = "start"
    /\ probe = 0
    /\ max_depth \in -1..MaxDepth
    /\ stack = <<>>
    /\ retval = NoRet
    /\ site = [u \in Urls |-> Unfetched]
    /\ processed_indices = {}
    /\ discovered_urls = {}
    /\ result = EmptyResult
    /\ fetchCount = [u \in Urls |-> 0]
    /\ returned = <<>>
    /\ closed = 0
    /\ call = NoCall

\* ----------------------------------------------------------------- actions
\* ParsingService.parse_sitemap with a url that names a sitemap (it ends in
\* .xml or .xml.gz or contains "sitemap"): a fresh SitemapParser and the
\* call parser.parse_sitemap_url(url, max_depth).
ServiceStartDirect ==
    /\ pc = "start"
    /\ pc' = "parsing"
    /\ stack' = <<ParseFrame(RootUrl, max_depth)>>
    /\ UNCHANGED <<call, closed, probe, max_depth, retval, site, processed_indices,
                   discovered_urls, result, fetchCount, returned>>

\* SitemapParser.close: await self.client.aclose().
close(n) == n + 1

\* parse_sitemap, the except clause with completed_at left as it was.
OnExceptionUnstamped(res, e) ==
    [res EXCEPT !.status = "error", !.error = e]

\* parse_sitemap, `except Exception as e`: the result reports the error.
OnException(res, e) ==
    [res EXCEPT !.status = "error", !.error = e, !.completed = TRUE]

\* What urlparse raises for a URL whose host opens a bracket it does not
\* close ("http://[x"): ValueError, whose text is the error reported.
InvalidUrl == "Invalid IPv6 URL"

\* parse_sitemap with a site URL that urlparse rejects: the parser is
\* created, discover_sitemap raises before its first request, and the
\* except clause of parse_sitemap builds the result that is returned.
\* No await lies between the call and the return.
DiscoverRaises ==
    /\ pc = "start"
    /\ pc' = "done"
    /\ result' = OnException(result, InvalidUrl)
    /\ UNCHANGED <<call, closed, probe, max_depth, stack, retval, site,
                   processed_indices, discovered_urls, fetchCount, returned>>

\* ParsingService.parse_sitemap with any other url: a fresh SitemapParser
\* and the call parser.discover_sitemap(url).
ServiceStartDiscover ==
    /\ pc = "start"
    /\ pc' = "discover"
    /\ probe' = 1
    /\ UNCHANGED <<call, closed, max_depth, stack, retval, site, processed_indices,
                   discovered_urls, result, fetchCount, returned>>

\* discover_sitemap: HEAD of the next common path.  Status 200 returns the
\* path, which parse_sitemap hands to parse_sitemap_url; any other status
\* or an exception moves on to the next path, and to robots.txt after the
\* last one.
DiscoverProbe ==
    /\ pc = "discover"
    /\ probe \in 1..Len(common_paths)
    /\ \E outcome \in {"200", "other_status", "raises"} :
         IF outcome = "200"
         THEN /\ pc' = "parsing"
              /\ probe' = 0
              /\ stack' = <<ParseFrame(RootUrl, max_depth)>>
              /\ UNCHANGED result
         ELSE /\ pc' = "discover"
              /\ probe' = probe + 1
              /\ UNCHANGED <<stack, result>>
    /\ UNCHANGED <<call, closed, max_depth, retval, site, processed_indices,
                   discovered_urls, fetchCount, returned>>

\* parse_sitemap with the fallback dropped: a negative discovery leaves the
\* URL list empty.
NoFallbackUrls(url) == <<>>

\* parse_sitemap, discovery returned None: urls = [url].
FallbackUrls(url) == <<url>>

\* discover_sitemap: GET of robots.txt.  A "sitemap:" line returns its URL,
\* which parse_sitemap hands to parse_sitemap_url; otherwise discovery
\* returns None and parse_sitemap answers with the bare site URL.
DiscoverRobots ==
    /\ pc = "discover"
    /\ probe = Len(common_paths) + 1
    /\ probe' = 0
    /\ \E outcome \in {"directive", "no_directive", "other_status", "raises"} :
         IF outcome = "directive"
         THEN /\ pc' = "parsing"
              /\ stack' = <<ParseFrame(RootUrl, max_depth)>>
              /\ UNCHANGED <<result, closed>>
         ELSE /\ pc' = "done"
              /\ result' = [result EXCEPT
                              !.urls = FallbackUrls(SiteUrl),
                              !.total_urls = Len(FallbackUrls(SiteUrl)),
                              !.completed = TRUE]
              /\ closed' = close(closed)
              /\ UNCHANGED stack
    /\ UNCHANGED <<call, max_depth, retval, site, processed_indices,
                   discovered_urls, fetchCount, returned>>

\* URLs are numbered in the order in which the site first mentions them:
\* the root is 1, and a reference to a URL no fetched index has mentioned
\* yet uses the next free number.
Known == {RootUrl} \cup UNION {SeqToSet(site[u].refs) : u \in Urls}

\* The reference lists of at most n references an index can hold when the
\* URLs 1..known have been mentioned.
RECURSIVE RefLists(_, _)
RefLists(known, n) ==
    IF n = 0 THEN {<<>>}
    ELSE {<<>>} \cup UNION {
             {<<u>> \o rest :
                 rest \in RefLists(IF u > known THEN u ELSE known, n - 1)} :
             u \in 1..(known + 1)}

\* The references the fetched indexes of the site hold so far.
RECURSIVE RefsUsed(_)
RefsUsed(urls) ==
    IF urls = {} THEN 0
    ELSE LET u == CHOOSE v \in urls : TRUE
         IN  Len(site[u].refs) + RefsUsed(urls \ {u})

\* The documents a GET of url can yield: drawn at the first request, then
\* served unchanged.
IndexDocs ==
    {[kind |-> "sitemapindex", refs |-> r, entries |-> 0] :
        r \in RefLists(Cardinality(Known), MaxRefs - RefsUsed(Urls))}
LeafDocs ==
    {[kind |-> "urlset", refs |-> <<>>, entries |-> n] : n \in 0..MaxEntries}
Served(url, kind) ==
    IF site[url] # Unfetched THEN {doc \in {site[url]} : doc.kind = kind}
    ELSE CASE kind = "fail"         -> {FailDoc}
           [] kind = "urlset"       -> LeafDocs
           [] kind = "sitemapindex" -> IndexDocs

InParse == pc = "parsing" /\ stack # <<>> /\ retval = NoRet
              /\ Top.fn = "parse_sitemap_url" /\ Top.i = 0

LogReturn(f, doc, urls) ==
    Append(returned, [url |-> f.url, max_depth |-> f.max_depth,
                      kind |-> doc.kind, urls |-> urls,
                      followed |-> f.followed])

\* `response = await self.client.get(url)` of parse_sitemap_url: the one
\* request of a call, counted per URL.
client_get_retried(counts, url) == [counts EXCEPT ![url] = @ + 2]
client_get(counts, url) == [counts EXCEPT ![url] = @ + 1]

\* parse_sitemap_url: the GET, raise_for_status, the decompression or the
\* XML parse raises; the except clauses log and return [].
FetchFails ==
    /\ InParse
    /\ FailDoc \in Served(Top.url, "fail")
    /\ \E kind \in FailureKinds :
         retval' = IF CaughtBy(ParseUrlHandlers, ExceptionOf(kind))
                   THEN Handled(kind)
                   ELSE Raise(ExceptionOf(kind))
    /\ site' = [site EXCEPT ![Top.url] = FailDoc]
    /\ fetchCount' = client_get(fetchCount, Top.url)
    /\ returned' = LogReturn(Top, FailDoc, <<>>)
    /\ stack' = Pop
    /\ UNCHANGED <<call, closed, pc, probe, max_depth, processed_indices,
                   discovered_urls, result>>

\* parse_sitemap_url on a document whose root is not sitemapindex:
\* parse_sitemap_xml, then discovered_urls.update(urls) and return urls.
FetchLeaf ==
    /\ InParse
    /\ \E doc \in Served(Top.url, "urlset") :
         LET urls == parse_sitemap_xml(doc, Top.url) IN
         /\ site' = [site EXCEPT ![Top.url] = doc]
         /\ discovered_urls' = discovered_urls \cup SeqToSet(urls)
         /\ retval' = Return(urls)
         /\ returned' = LogReturn(Top, doc, urls)
    /\ fetchCount' = client_get(fetchCount, Top.url)
    /\ stack' = Pop
    /\ UNCHANGED <<call, closed, pc, probe, max_depth, processed_indices, result>>

\* parse_sitemap_url on a sitemapindex with max_depth > 0: the call
\* process_sitemap_index(sitemap_urls, max_depth - 1).
FetchIndex ==
    /\ InParse
    /\ MayRecurse(Top.max_depth)
    /\ \E doc \in Served(Top.url, "sitemapindex") :
         /\ site' = [site EXCEPT ![Top.url] = doc]
         /\ stack' = Append(ReplaceTop([Top EXCEPT !.i = 1]),
                            IndexFrame(extract_sitemap_locations(doc),
                                       ChildDepth(Top.max_depth)))
    /\ fetchCount' = client_get(fetchCount, Top.url)
    /\ UNCHANGED <<call, closed, pc, probe, max_depth, retval, processed_indices,
                   discovered_urls, result, returned>>

\* parse_sitemap_url on a sitemapindex with max_depth <= 0: "Max depth
\* reached, skipping nested sitemaps", urls = [].
FetchIndexAtDepthLimit ==
    /\ InParse
    /\ ~MayRecurse(Top.max_depth)
    /\ \E doc \in Served(Top.url, "sitemapindex") :
         /\ site' = [site EXCEPT ![Top.url] = doc]
         /\ returned' = LogReturn(Top, doc, <<>>)
    /\ retval' = Return(<<>>)
    /\ fetchCount' = client_get(fetchCount, Top.url)
    /\ stack' = Pop
    /\ UNCHANGED <<call, closed, pc, probe, max_depth, processed_indices,
                   discovered_urls, result>>

InIndex == pc = "parsing" /\ stack # <<>>
              /\ Top.fn = "process_sitemap_index"

\* process_sitemap_index: the reference was processed before; continue.
SkipProcessed ==
    /\ InIndex /\ retval = NoRet
    /\ Top.i <= Len(Top.sitemaps)
    /\ AlreadyProcessed(Top.sitemaps[Top.i], processed_indices)
    /\ stack' = ReplaceTop([Top EXCEPT !.i = NextReference(@)])
    /\ UNCHANGED <<call, closed, pc, probe, max_depth, retval, site, processed_indices,
                   discovered_urls, result, fetchCount, returned>>

\* process_sitemap_index: processed_indices.add(sitemap_url) and the call
\* parse_sitemap_url(sitemap_url, max_depth).
FollowReference ==
    /\ InIndex /\ retval = NoRet
    /\ Top.i <= Len(Top.sitemaps)
    /\ ~AlreadyProcessed(Top.sitemaps[Top.i], processed_indices)
    /\ processed_indices' = add(processed_indices, Top.sitemaps[Top.i])
    /\ stack' = Append(
          ReplaceTop([Top EXCEPT !.followed = Append(@, Top.sitemaps[Top.i])]),
          ParseFrame(Top.sitemaps[Top.i], Top.max_depth))
    /\ UNCHANGED <<call, closed, pc, probe, max_depth, retval, site, discovered_urls,
                   result, fetchCount, returned>>

\* process_sitemap_index resumed by the nested parse_sitemap_url: extend
\* all_urls, or log the exception and continue with the next reference.
ReferenceDone ==
    /\ InIndex /\ retval # NoRet
    /\ stack' = ReplaceTop(
          [Top EXCEPT !.all_urls = IF retval.kind = "return"
                                   THEN Extend(@, retval.urls) ELSE @,
                      !.i = NextReference(@)])
    /\ retval' = NoRet
    /\ UNCHANGED <<call, closed, pc, probe, max_depth, site, processed_indices,
                   discovered_urls, result, fetchCount, returned>>

\* process_sitemap_index after its last reference: return all_urls to the
\* parse_sitemap_url that called it, which updates discovered_urls and
\* returns the same list.
IndexDone ==
    /\ InIndex /\ retval = NoRet
    /\ Top.i > Len(Top.sitemaps)
    /\ LET caller == stack[Len(stack) - 1] IN
         /\ discovered_urls' = discovered_urls \cup SeqToSet(Top.all_urls)
         /\ retval' = Return(Top.all_urls)
         /\ returned' = LogReturn([caller EXCEPT !.followed = Top.followed],
                                  site[caller.url], Top.all_urls)
    /\ stack' = SubSeq(stack, 1, Len(stack) - 2)
    /\ UNCHANGED <<call, closed, pc, probe, max_depth, site, processed_indices, result,
                   fetchCount>>

\* ParsingService.parse_sitemap resumed by the top-level parse_sitemap_url:
\* store urls and total_urls and close the parser, or, on an exception, set
\* status "error".
ServiceDone ==
    /\ pc = "parsing" /\ stack = <<>> /\ retval # NoRet
    /\ result' = IF retval.kind = "return"
                 THEN [result EXCEPT !.urls = retval.urls,
                                     !.total_urls = Len(retval.urls),
                                     !.completed = TRUE]
                 ELSE OnException(result, retval.exc)
    /\ closed' = IF retval.kind = "return" THEN close(closed) ELSE closed
    /\ retval' = NoRet
    /\ pc' = "done"
    /\ UNCHANGED <<call, probe, max_depth, stack, site, processed_indices,
                   discovered_urls, fetchCount, returned>>

Next ==
    \/ ServiceStartDirect
    \/ ServiceStartDiscover
    \/ DiscoverRaises
    \/ DiscoverProbe
    \/ DiscoverRobots
    \/ FetchFails
    \/ FetchLeaf
    \/ FetchIndex
    \/ FetchIndexAtDepthLimit
    \/ SkipProcessed
    \/ FollowReference
    \/ ReferenceDone
    \/ IndexDone
    \/ ServiceDone

Spec == Init /\ [][Next]_vars

\* What the caller of a resolution may do besides awaiting it.

\* The caller of SitemapParser.parse_sitemap_url calls it a second time on
\* the same parser with the same root: __init__ is the only place that
\* empties processed_indices and discovered_urls, so both are kept.
ResolveAgain ==
    /\ pc = "parsing" /\ stack = <<>> /\ retval.kind = "return"
    /\ call = NoCall
    /\ call' = [fn |-> "resolve_again", first |-> retval.urls]
    /\ stack' = <<ParseFrame(RootUrl, max_depth)>>
    /\ retval' = NoRet
    /\ UNCHANGED <<closed, pc, probe, max_depth, site, processed_indices,
                   discovered_urls, result, fetchCount, returned>>

\* asyncio.CancelledError derives from BaseException, which no
\* `except Exception` clause catches.
BaseExceptions == {"CancelledError"}

\* The URLs the process_sitemap_index calls in progress hold in all_urls.
Collected == UNION {SeqToSet(stack[k].all_urls) : k \in 1..Len(stack)}

\* The task running parse_sitemap is cancelled (or a surrounding wait_for
\* expires) while parse_sitemap_url awaits client.get: CancelledError is
\* raised at the await, passes the except clauses of parse_sitemap_url, of
\* every process_sitemap_index below it and of parse_sitemap, and leaves
\* parse_sitemap, so the result dictionary is never returned.
CancelFetch ==
    /\ InParse
    /\ call = NoCall
    /\ \E exc \in BaseExceptions :
         /\ exc \notin ParseUrlHandlers
         /\ retval' = Raise(exc)
    /\ call' = [fn |-> "cancel", at |-> "get", collected |-> Collected]
    /\ stack' = <<>>
    /\ pc' = "cancelled"
    /\ UNCHANGED <<closed, probe, max_depth, site, processed_indices,
                   discovered_urls, result, fetchCount, returned>>

\* The task is cancelled while discover_sitemap awaits a request: the bare
\* except clauses catch CancelledError too, so the loop continues with the
\* next path, and after the robots.txt request discovery returns None.
CancelProbe ==
    /\ pc = "discover"
    /\ call = NoCall
    /\ IF probe <= Len(common_paths)
       THEN /\ call' = [fn |-> "cancel", at |-> "head", collected |-> {}]
            /\ probe' = probe + 1
            /\ UNCHANGED <<pc, result, closed>>
       ELSE /\ call' = [fn |-> "cancel", at |-> "robots", collected |-> {}]
            /\ probe' = 0
            /\ pc' = "done"
            /\ result' = [result EXCEPT
                            !.urls = FallbackUrls(SiteUrl),
                            !.total_urls = Len(FallbackUrls(SiteUrl)),
                            !.completed = TRUE]
            /\ closed' = close(closed)
    /\ UNCHANGED <<max_depth, stack, retval, site, processed_indices,
                   discovered_urls, fetchCount, returned>>

CallerNext ==
    \/ Next
    \/ ResolveAgain
    \/ CancelFetch
    \/ CancelProbe

CallerSpec == Init /\ [][CallerNext]_vars

\* Every coroutine that is ready to run is eventually resumed by the event
\* loop, and every request returns or fails.
FairSpec == Spec /\ WF_vars(Next)

TypeOK ==
    /\ pc \in {"start", "discover", "parsing", "done"}
    /\ probe \in 0..(Len(common_paths) + 1)
    /\ processed_indices \subseteq Urls
    /\ closed \in 0..1
    /\ \A u \in Urls : fetchCount[u] \in 0..2

\* ------------------------------------------------------- URLs and documents
\* A URL as the parser handles it: scheme and host, the directories of its
\* path, the last path segment (0 when the path ends in "/") and whether it
\* ends in ".gz".  A relative reference has no scheme and no host.
Url(host, dir, file, gz) ==
    [abs |-> TRUE, host |-> host, dir |-> dir, file |-> file, gz |-> gz]
Relative(file) ==
    [abs |-> FALSE, host |-> "", dir |-> <<>>, file |-> file, gz |-> FALSE]

\* `url.startswith(('http://', 'https://'))`.
StartsWithHttp(ref) == ref.abs

\* urllib.parse.urljoin: a reference with a scheme stands for itself, the
\* empty reference for the base, and any other reference replaces the last
\* segment of the base path.
urljoin(base, ref) ==
    IF ref.abs THEN ref
    ELSE IF ref.file = 0 THEN base
    ELSE [base EXCEPT !.file = ref.file, !.gz = ref.gz]

\* NAMESPACES['ns'] and two namespaces that are not in the table.
SitemapNs == "http://www.sitemaps.org/schemas/sitemap/0.9"
Namespaces == {SitemapNs, "http://www.google.com/schemas/sitemap/0.84", ""}

\* An element below the root, at any depth: its local name, its namespace,
\* its <loc> child (absent, without text, white space only, an absolute URL
\* or a relative reference) and its <priority> child (absent, a number,
\* some other text, or without text).
LocKinds == {"absent", "empty", "blank", "abs", "rel"}
PriorityKinds == {"absent", "number", "text", "empty"}
Elements ==
    {e \in [tag : {"url", "sitemap"}, ns : Namespaces, loc : LocKinds,
            priority : PriorityKinds] :
        /\ e.priority # "absent" =>
               e.tag = "url" /\ e.ns = SitemapNs /\ e.loc = "abs"
        /\ e.ns # SitemapNs => e.loc = "abs"
        /\ e.tag = "sitemap" => e.loc \in {"absent", "abs", "rel"}}

\* All sequences over S of length at most n.
RECURSIVE SeqsUpTo(_, _)
SeqsUpTo(S, n) ==
    IF n = 0 THEN {<<>>}
    ELSE LET shorter == SeqsUpTo(S, n - 1)
         IN  shorter \cup {Append(s, x) :
                              s \in {t \in shorter : Len(t) = n - 1}, x \in S}

\* The text of a response: markup that does not parse, or a document with
\* the local name of its root tag and its elements in document order.
RootTags == {"urlset", "sitemapindex", "rss"}
Malformed == [wellformed |-> FALSE, root |-> "", elems |-> <<>>]
XmlDocs(roots, n) ==
    {Malformed} \cup
    {[wellformed |-> TRUE, root |-> r, elems |-> es] :
        r \in roots, es \in SeqsUpTo(Elements, n)}

\* `loc_elem.text.strip()` of the element at position k of its document:
\* the k-th page of the site, by an absolute URL or a relative reference;
\* white space strips to the empty reference.
LocText(e, k) ==
    CASE e.loc = "abs"   -> Url("site", <<>>, k, FALSE)
      [] e.loc = "rel"   -> Relative(k)
      [] e.loc = "blank" -> Relative(0)

\* `root.findall('.//ns:<tag>', NAMESPACES)`: the namespace is part of the
\* name that is matched.
Qualified(e, tag) == e.tag = tag /\ e.ns = SitemapNs
\* `loc_elem is not None and loc_elem.text`.
HasLocText(e) == e.loc \notin {"absent", "empty"}
\* `float(priority.text) if priority is not None else None` returns.
FloatParses(e) == e.priority \in {"absent", "number"}

\* parse_sitemap_xml on the text of a response: the loop over the <url>
\* elements.  An exception of the loop body ends the loop with the URLs
\* appended so far; the limit is tested after the append.
RECURSIVE UrlLoopUnder(_, _, _, _, _)
UrlLoopUnder(limit, xml, base_url, k, urls) ==
    IF k > Len(xml.elems) THEN urls
    ELSE LET e == xml.elems[k]
             url == IF StartsWithHttp(LocText(e, k)) THEN LocText(e, k)
                    ELSE urljoin(base_url, LocText(e, k))
             appended == Append(urls, url)
         IN  IF ~Qualified(e, "url") \/ ~HasLocText(e)
             THEN UrlLoopUnder(limit, xml, base_url, k + 1, urls)
             ELSE IF ~FloatParses(e) THEN urls
             ELSE IF Len(appended) >= limit THEN appended
             ELSE UrlLoopUnder(limit, xml, base_url, k + 1, appended)

\* The loop with settings.MAX_URLS_PER_SITEMAP as configured.
UrlLoop(xml, base_url, k, urls) ==
    UrlLoopUnder(MAX_URLS_PER_SITEMAP, xml, base_url, k, urls)

\* parse_sitemap_xml: markup that does not parse gives the empty list.
ParseSitemapXml(xml, base_url) ==
    IF xml.wellformed THEN UrlLoop(xml, base_url, 1, <<>>) ELSE <<>>

\* parse_sitemap_xml with settings.MAX_URLS_PER_SITEMAP set to limit.
ParseSitemapXmlUnder(limit, xml, base_url) ==
    IF xml.wellformed THEN UrlLoopUnder(limit, xml, base_url, 1, <<>>)
    ELSE <<>>

\* _extract_sitemap_locations on a parsed index: the stripped <loc> text of
\* each <sitemap> element, as written.
RECURSIVE SitemapLoop(_, _, _)
SitemapLoop(root, k, locations) ==
    IF k > Len(root.elems) THEN locations
    ELSE LET e == root.elems[k]
         IN  IF Qualified(e, "sitemap") /\ HasLocText(e)
             THEN SitemapLoop(root, k + 1, Append(locations, LocText(e, k)))
             ELSE SitemapLoop(root, k + 1, locations)

ExtractSitemapLocations(root) == SitemapLoop(root, 1, <<>>)

\* ------------------------------------------------- bytes, text and gzip
\* Text is a sequence of code points and content a sequence of bytes.  Code
\* point 60 stands for the whole markup of the document a response carries
\* (one ASCII byte); 233 is a letter that UTF-8 encodes in the two bytes
\* 195, 169.
RECURSIVE Utf8Encode(_)
Utf8Encode(text) ==
    IF text = <<>> THEN <<>>
    ELSE (IF Head(text) < 128 THEN <<Head(text)>> ELSE <<195, 169>>)
         \o Utf8Encode(Tail(text))

\* bytes.decode('utf-8'): fails on a byte sequence that is not UTF-8.
RECURSIVE Utf8Decode(_)
Utf8Decode(bytes) ==
    IF bytes = <<>> THEN [ok |-> TRUE, text |-> <<>>]
    ELSE IF Head(bytes) < 128
    THEN LET rest == Utf8Decode(Tail(bytes))
         IN  [ok |-> rest.ok, text |-> <<Head(bytes)>> \o rest.text]
    ELSE IF Len(bytes) >= 2 /\ bytes[1] = 195 /\ bytes[2] = 169
    THEN LET rest == Utf8Decode(Tail(Tail(bytes)))
         IN  [ok |-> rest.ok, text |-> <<233>> \o rest.text]
    ELSE [ok |-> FALSE, text |-> <<>>]

\* response.text: httpx decodes leniently, a byte sequence that is not
\* UTF-8 comes out with replacement characters (65533).
ResponseText(content) ==
    IF Utf8Decode(content).ok THEN Utf8Decode(content).text ELSE <<65533>>

RECURSIVE Reverse(_)
Reverse(s) == IF s = <<>> THEN <<>> ELSE Append(Reverse(Tail(s)), Head(s))

\* gzip.compress: the magic bytes 31, 139, the coded body and the length of
\* the input as trailer.  The coding of the body is any invertible
\* transformation of the bytes; here it reverses them.
Deflate(bytes) == Reverse(bytes)
GzipCompress(bytes) == <<31, 139>> \o Deflate(bytes) \o <<Len(bytes)>>

\* gzip.decompress: fails unless the magic bytes and the trailer are right.
InflateAsStored(body) == body
Inflate(body) == Reverse(body)
GzipDecompress(data) ==
    IF /\ Len(data) >= 3
       /\ data[1] = 31 /\ data[2] = 139
       /\ data[Len(data)] = Len(data) - 3
    THEN [ok |-> TRUE, bytes |-> Inflate(SubSeq(data, 3, Len(data) - 1))]
    ELSE [ok |-> FALSE, bytes |-> <<>>]

\* handle_gzip_sitemap: gzip.decompress(data).decode('utf-8'); a failure of
\* either step is logged and raised again (ok = FALSE).
handle_gzip_with_fallback(data) ==
    LET raw == GzipDecompress(data)
    IN  IF raw.ok /\ Utf8Decode(raw.bytes).ok THEN Utf8Decode(raw.bytes)
        ELSE [ok |-> TRUE, text |-> ResponseText(data)]
handle_gzip_sitemap(data) ==
    LET raw == GzipDecompress(data)
    IN  IF raw.ok THEN Utf8Decode(raw.bytes) ELSE [ok |-> FALSE, text |-> <<>>]

\* ET.fromstring(text) returns the root of xml: the text is the markup of
\* xml and the markup is well formed.
Parses(text, xml) == text = <<60>> /\ xml.wellformed

\* The call process_sitemap_index(sitemap_urls, max_depth - 1) that
\* parse_sitemap_url awaits for an index.
Await(sitemaps, depth) ==
    [kind |-> "await", sitemaps |-> sitemaps, max_depth |-> depth]

\* parse_sitemap_url from the response to the return or to the nested
\* call: status check, decompression when the URL ends in .gz or the
\* response declares gzip, XML parse, root tag, extraction.
ParseResponse(url, response, xml, depth) ==
    LET hint == url.gz \/ response.content_encoding = "gzip"
        unzipped == handle_gzip_sitemap(response.content)
        xml_content == IF hint THEN unzipped.text
                       ELSE ResponseText(response.content)
    IN  IF response.status_code # 200 THEN Handled("http_status")
        ELSE IF hint /\ ~unzipped.ok THEN Handled("gzip")
        ELSE IF ~Parses(xml_content, xml) THEN Handled("xml")
        ELSE IF xml.root = "sitemapindex"
        THEN IF MayRecurse(depth)
             THEN Await(ExtractSitemapLocations(xml), ChildDepth(depth))
             ELSE Return(<<>>)
        ELSE Return(ParseSitemapXml(xml, url))

\* ------------------------------------------------------- discover_sitemap
\* discover_sitemap called on its own, request by request, with a log of
\* the requests and their answers.  DiscoverProbe and DiscoverRobots above
\* are the same steps inside ParsingService.parse_sitemap, without the log.
\* The URL of a web site or of a file on it: scheme, host and path.
SiteUrls ==
    {[scheme |-> "https", netloc |-> "x", path |-> ""],
     [scheme |-> "http", netloc |-> "x", path |-> "/blog/post"]}
\* `base = f"{parsed.scheme}://{parsed.netloc}"` followed by a path.
OnSite(base_url, path) ==
    [scheme |-> base_url.scheme, netloc |-> base_url.netloc, path |-> path]

\* A line of robots.txt: what stands before its first colon, and after it
\* a URL that may be surrounded by white space.
RobotsUrls ==
    {[scheme |-> "https", netloc |-> "x", path |-> "/custom.xml"],
     [scheme |-> "https", netloc |-> "cdn", path |-> "/maps.xml"]}
Keys == {"Sitemap", "sitemap", "SITEMAP", " Sitemap", "User-agent"}
RobotsLines ==
    {l \in [key : Keys, pad : BOOLEAN, url : RobotsUrls] :
        /\ l.key = "User-agent" => l.pad /\ l.url.netloc = "x"
        /\ l.url.netloc = "cdn" => ~l.pad}
RobotsTexts == SeqsUpTo(RobotsLines, MaxLines)

\* str.lower on the start of a line.
AsWritten(key) == key
Lower(key) ==
    CASE key \in {"Sitemap", "sitemap", "SITEMAP"} -> "sitemap"
      [] key = " Sitemap" -> " sitemap"
      [] key = "User-agent" -> "user-agent"
\* `line.lower().startswith('sitemap:')`.
StartsWithSitemap(line) == Lower(line.key) = "sitemap"
\* `line.split(':', 1)[1].strip()`.
DirectiveValue(line) == line.url

\* The scan of robots.txt: the value of the first matching line, if any.
RECURSIVE ScanRobots(_)
ScanRobots(lines) ==
    IF lines = <<>> THEN <<>>
    ELSE IF StartsWithSitemap(Head(lines)) THEN <<DirectiveValue(Head(lines))>>
    ELSE ScanRobots(Tail(lines))

\* ------------------------------------------- methods called on their own
\* The parser's methods are also called directly, as the tests do.  call
\* holds the method, its arguments and, once it has returned, its result.
Pending == [kind |-> "pending"]
BaseUrls == {Url("x", <<>>, 0, FALSE), Url("x", <<"maps">>, 9, FALSE)}

XmlCalls ==
    {[fn |-> "parse_sitemap_xml", xml |-> x, base_url |-> b, out |-> Pending] :
        x \in XmlDocs({"urlset"}, MaxEntries), b \in BaseUrls}
LocationCalls ==
    {[fn |-> "_extract_sitemap_locations", root |-> x, out |-> Pending] :
        x \in XmlDocs({"sitemapindex"}, MaxEntries) \ {Malformed}}

\* parse_sitemap_xml under each setting of MAX_URLS_PER_SITEMAP from 0 on,
\* on a urlset of entries that each hold an absolute loc and nothing else.
PlainEntry ==
    [tag |-> "url", ns |-> SitemapNs, loc |-> "abs", priority |-> "absent"]
LimitCalls ==
    {[fn |-> "parse_sitemap_xml under limit", limit |-> l,
      xml |-> [wellformed |-> TRUE, root |-> "urlset",
               elems |-> [k \in 1..n |-> PlainEntry]],
      base_url |-> Url("x", <<>>, 0, FALSE), out |-> Pending] :
        l \in 0..MAX_URLS_PER_SITEMAP, n \in 0..MaxEntries}

\* handle_gzip_sitemap on compressed bytes (plain holds what was
\* compressed), on a compressed stream cut short and on arbitrary bytes.
ByteSeqs == SeqsUpTo({60, 195, 169, 31}, MaxBytes)
GzipCalls ==
    {[fn |-> "handle_gzip_sitemap", data |-> GzipCompress(x), plain |-> <<x>>,
      out |-> Pending] : x \in ByteSeqs}
    \cup
    {[fn |-> "handle_gzip_sitemap", data |-> d, plain |-> <<>>,
      out |-> Pending] :
        d \in ByteSeqs \cup {GzipCompress(x) : x \in ByteSeqs}
                        \cup {Tail(GzipCompress(x)) : x \in ByteSeqs}}

\* What a GET returns: the status, the content-encoding header and the
\* content, which is the markup of a document, its gzip form, that form
\* cut short, the gzip form of bytes that are not UTF-8, or other bytes.
Contents ==
    {Utf8Encode(<<60>>), GzipCompress(Utf8Encode(<<60>>)),
     Tail(GzipCompress(Utf8Encode(<<60>>))), GzipCompress(<<169>>), <<195>>}
Responses ==
    [status_code : {200, 404}, content_encoding : {"gzip", None},
     content : Contents]
\* parse_sitemap_url with the client answering the GET with a response.
FetchCalls ==
    {[fn |-> "parse_sitemap_url", url |-> Url("x", <<"maps">>, 9, gz),
      max_depth |-> d, response |-> r, xml |-> x, out |-> Pending] :
        gz \in BOOLEAN, d \in 0..1, r \in Responses,
        x \in XmlDocs(RootTags, MaxFetchedElems)}

\* What discover_sitemap returns: a URL, or None when found is empty.
Discovered(found) == [kind |-> "return", sitemap_url |-> found]

DiscoverCalls ==
    {[fn |-> "discover_sitemap", base_url |-> b, i |-> 1, requests |-> <<>>,
      out |-> Pending] : b \in SiteUrls}

\* ------------------------------------------------------- the HTTP API
\* An optional field of a request body is <<>> when absent or null and
\* <<v>> when it holds v.
\* The default of max_depth, and the largest value that
\* models.parsing.SitemapRequest accepts (ge=1, le=10); no route uses that
\* model.
DefaultMaxDepth == 3
MaxAllowedDepth == 10

\* api.v1.sitemap.SitemapRequest: url is an HttpUrl, max_depth any integer
\* or null, follow_nested any boolean or null.
RouteAccepts(request) == request.url_valid

\* Python's `x or default` on an optional integer and an optional boolean.
OrInt(x, default) ==
    IF x = <<>> THEN default ELSE IF x[1] = 0 THEN default ELSE x[1]
OrBool(x, default) ==
    IF x = <<>> THEN default ELSE IF x[1] THEN x[1] ELSE default

\* The arguments of parse_sitemap_task.delay in the route function.
TaskArgs(request) ==
    [max_depth     |-> OrInt(request.max_depth, DefaultMaxDepth),
     follow_nested |-> OrBool(request.follow_nested, TRUE)]

\* The paths the application serves: create_app registers /health and
\* /ready and includes the v1 router, whose inclusion of the sitemap
\* router is commented out.
AppPaths == {"/health", "/ready"}

Response(status_code, enqueued) ==
    [kind |-> "response", status_code |-> status_code,
     enqueued |-> enqueued, resolution |-> <<>>]

Requests ==
    [url_valid : BOOLEAN,
     max_depth : {<<>>} \cup {<<d>> : d \in 0..(MaxAllowedDepth + 1)},
     follow_nested : {<<>>, <<TRUE>>, <<FALSE>>}]

\* A POST to the application, and the route function of api.v1.sitemap
\* called with a request body while the Celery broker is up or down.
ApiCalls ==
    {[fn |-> "POST", path |-> "/api/v1/sitemap/parse", request |-> r,
      broker_up |-> TRUE, out |-> Pending] : r \in Requests}
    \cup
    {[fn |-> "sitemap.parse_sitemap", path |-> "/sitemap/parse",
      request |-> r, broker_up |-> b, out |-> Pending] :
        r \in Requests, b \in BOOLEAN}

\* ------------------------------------------------- the task registry
\* ParsingService.tasks maps a task id to the task; ops is the history of
\* the create_task and update_task_status calls made on the service, and
\* the time of a call is the number of calls made before it.
TaskIds == {"t1", "t2"}
TaskUrls == {"https://example.com/sitemap.xml", "https://example.org/"}
TaskConfigs == {[max_depth |-> 3, follow_nested |-> TRUE]}
\* What update_task_status is called with: a completed task with or
\* without a result ("{}" is an empty dictionary, which is not None), or
\* a failed one with an error message.
UpdateArgs ==
    [status : {"completed"}, result : {None, "{}", "{total_urls: 100}"},
     error : {None}]
    \cup [status : {"failed"}, result : {None}, error : {"timeout"}]
NoTasks == [t \in {} |-> None]

RegistryCalls ==
    {[fn |-> "tasks", tasks |-> NoTasks, ops |-> <<>>, out |-> Pending]}

\* uuid4(): an id no registered task has.
FreshIds(tasks) == TaskIds \ DOMAIN tasks

\* `self.tasks[task_id] = task` of create_task.
RegisterAlone(tasks, task_id, task) == task_id :> task
Register(tasks, task_id, task) == (task_id :> task) @@ tasks

\* `if result is not None` and `if error is not None` of
\* update_task_status.
IsTruthy(x) == x \notin {None, "{}"}
IsNotNone(x) == x # None

\* The dictionary create_task builds.
NewTask(task_id, url, config, now) ==
    [id |-> task_id, url |-> url, status |-> "pending", created_at |-> now,
     updated_at |-> now, config |-> config, result |-> None, error |-> None]

\* What get_task_status returns: the view of a registered task, or None.
NoStatus == [kind |-> "none"]
get_task_status(tasks, task_id) ==
    IF task_id \in DOMAIN tasks
    THEN [kind |-> "status", id |-> tasks[task_id].id,
          status |-> tasks[task_id].status,
          created_at |-> tasks[task_id].created_at,
          updated_at |-> tasks[task_id].updated_at,
          result |-> tasks[task_id].result, error |-> tasks[task_id].error]
    ELSE NoStatus

\* update_task_status storing whatever it is given, None included.
StoreAlways(old, new) == new

\* update_task_status, `if result is not None: ...["result"] = result`,
\* and the same for error: what the field holds afterwards.
StoreIfGiven(old, new) == IF IsNotNone(new) THEN new ELSE old

\* update_task_status that registers the task when the id is unknown.
update_or_register(tasks, task_id, status, new_result, new_error, now) ==
    [t \in DOMAIN tasks \cup {task_id} |->
        IF t # task_id THEN tasks[t]
        ELSE [(IF t \in DOMAIN tasks THEN tasks[t]
               ELSE NewTask(task_id, "", <<>>, now))
                 EXCEPT !.status = status, !.updated_at = now,
                        !.result = StoreIfGiven(@, new_result),
                        !.error = StoreIfGiven(@, new_error)]]

\* The tasks after update_task_status(task_id, status, result, error);
\* the two optional arguments are new_result and new_error here.
update_task_status(tasks, task_id, status, new_result, new_error, now) ==
    IF task_id \in DOMAIN tasks
    THEN [tasks EXCEPT ![task_id] =
             [@ EXCEPT !.status = status,
                       !.updated_at = now,
                       !.result = StoreIfGiven(@, new_result),
                       !.error = StoreIfGiven(@, new_error)]]
    ELSE tasks

\* ------------------------------------- coroutines sharing one parser
\* Two parse_sitemap_url(root, 1) coroutines run on one SitemapParser by
\* one event loop, each on a root index of a site of two sitemaps; a
\* coroutine is suspended only at `await self.client.get`.  The sitemaps a
\* root references are resolved with budget 0, so none of them recurses.
GatherUrls == {RootUrl, RootUrl + 1}
Coroutines == {1, 2}
Coroutine(root) == [root |-> root, at |-> "start", i |-> 0]
GatherCalls ==
    {[fn |-> "gather", refs |-> r,
      coroutines |-> [c \in Coroutines |-> Coroutine(roots[c])],
      fetched |-> [c \in Coroutines |-> {}], out |-> Pending] :
        r \in [GatherUrls -> SeqsUpTo(GatherUrls, Cardinality(GatherUrls))],
        roots \in [Coroutines -> GatherUrls]}

CallInit ==
    /\ pc = "call"
    /\ probe = 0
    /\ max_depth = 0
    /\ stack = <<>>
    /\ retval = NoRet
    /\ site = [u \in Urls |-> Unfetched]
    /\ processed_indices = {}
    /\ discovered_urls = {}
    /\ result = EmptyResult
    /\ fetchCount = [u \in Urls |-> 0]
    /\ returned = <<>>
    /\ closed = 0
    /\ \/ call \in XmlCalls
       \/ call \in LocationCalls
       \/ call \in GzipCalls
       \/ call \in FetchCalls
       \/ call \in DiscoverCalls
       \/ call \in LimitCalls
       \/ call \in ApiCalls
       \/ call \in RegistryCalls
       \/ call \in GatherCalls

engine == <<pc, probe, max_depth, stack, retval, site, processed_indices,
            discovered_urls, result, fetchCount, returned, closed>>

CallParseSitemapXml ==
    /\ call.fn = "parse_sitemap_xml"
    /\ call.out = Pending
    /\ call' = [call EXCEPT
                   !.out = Return(ParseSitemapXml(call.xml, call.base_url))]
    /\ UNCHANGED engine

CallParseUnderLimit ==
    /\ call.fn = "parse_sitemap_xml under limit"
    /\ call.out = Pending
    /\ call' = [call EXCEPT
                   !.out = Return(ParseSitemapXmlUnder(call.limit, call.xml,
                                                       call.base_url))]
    /\ UNCHANGED engine

CallExtractSitemapLocations ==
    /\ call.fn = "_extract_sitemap_locations"
    /\ call.out = Pending
    /\ call' = [call EXCEPT !.out = Return(ExtractSitemapLocations(call.root))]
    /\ UNCHANGED engine

CallHandleGzipSitemap ==
    /\ call.fn = "handle_gzip_sitemap"
    /\ call.out = Pending
    /\ call' = [call EXCEPT
                   !.out = IF handle_gzip_sitemap(call.data).ok
                           THEN [kind |-> "return",
                                 text |-> handle_gzip_sitemap(call.data).text]
                           ELSE Raise("Exception")]
    /\ UNCHANGED engine

CallParseSitemapUrl ==
    /\ call.fn = "parse_sitemap_url"
    /\ call.out = Pending
    /\ call' = [call EXCEPT
                   !.out = ParseResponse(call.url, call.response, call.xml,
                                         call.max_depth)]
    /\ UNCHANGED engine

\* One turn of the loop over common_paths: a HEAD request whose answer has
\* status 200 or another status, or which raises.
DiscoverHead ==
    /\ call.fn = "discover_sitemap"
    /\ call.out = Pending
    /\ call.i <= Len(common_paths)
    /\ \E answer \in {"200", "404", "raises"} :
         LET sitemap_url == OnSite(call.base_url, common_paths[call.i])
             request == [method |-> "HEAD", url |-> sitemap_url,
                         answer |-> answer, text |-> <<>>]
         IN  call' = [call EXCEPT
                         !.requests = Append(@, request),
                         !.i = IF answer = "200" THEN @ ELSE @ + 1,
                         !.out = IF answer = "200"
                                 THEN Discovered(<<sitemap_url>>) ELSE @]
    /\ UNCHANGED engine

\* After the loop: the GET of robots.txt and the scan of its lines.
DiscoverRobotsTxt ==
    /\ call.fn = "discover_sitemap"
    /\ call.out = Pending
    /\ call.i = Len(common_paths) + 1
    /\ \E answer \in {"200", "404", "raises"} :
       \E text \in IF answer = "200" THEN RobotsTexts ELSE {<<>>} :
         LET request == [method |-> "GET",
                         url |-> OnSite(call.base_url, "/robots.txt"),
                         answer |-> answer, text |-> text]
         IN  call' = [call EXCEPT
                         !.requests = Append(@, request),
                         !.out = IF answer = "200"
                                 THEN Discovered(ScanRobots(text))
                                 ELSE Discovered(<<>>)]
    /\ UNCHANGED engine

\* The application answers a path it does not serve with 404.
AppPost ==
    /\ call.fn = "POST"
    /\ call.out = Pending
    /\ call.path \notin AppPaths
    /\ call' = [call EXCEPT !.out = Response(404, <<>>)]
    /\ UNCHANGED engine

\* api.v1.sitemap.parse_sitemap: the body is validated against the
\* route's SitemapRequest (422), the task is enqueued and "pending" is
\* answered (200), or delay raises and the answer is 500.
RouteParseSitemap ==
    /\ call.fn = "sitemap.parse_sitemap"
    /\ call.out = Pending
    /\ call' = [call EXCEPT !.out =
                   IF ~RouteAccepts(call.request) THEN Response(422, <<>>)
                   ELSE IF ~call.broker_up THEN Response(500, <<>>)
                   ELSE Response(200, <<TaskArgs(call.request)>>)]
    /\ UNCHANGED engine

\* parse_sitemap_task run by a worker: service.parse_sitemap(url,
\* max_depth); follow_nested is not passed on.
RunParseSitemapTask ==
    /\ call.fn = "sitemap.parse_sitemap"
    /\ call.out # Pending
    /\ call.out.enqueued # <<>>
    /\ call.out.resolution = <<>>
    /\ max_depth' = call.out.enqueued[1].max_depth
    /\ call' = [call EXCEPT !.out.resolution =
                   <<[max_depth |-> call.out.enqueued[1].max_depth]>>]
    /\ UNCHANGED <<closed, pc, probe, stack, retval, site, processed_indices,
                   discovered_urls, result, fetchCount, returned>>

Op(op, task_id, url, config, status, new_result, new_error) ==
    [op |-> op, id |-> task_id, url |-> url, config |-> config,
     status |-> status, result |-> new_result, error |-> new_error]

\* create_task(url, config).
CreateTask ==
    /\ call.fn = "tasks"
    /\ \E task_id \in FreshIds(call.tasks), url \in TaskUrls,
          config \in TaskConfigs :
         call' = [call EXCEPT
                    !.tasks = Register(@, task_id,
                                NewTask(task_id, url, config, Len(call.ops))),
                    !.ops = Append(@, Op("create", task_id, url, config,
                                         "pending", None, None)),
                    !.out = Pending]
    /\ UNCHANGED engine

\* update_task_status(task_id, status, result, error), of a registered or
\* an unknown id.
UpdateTaskStatus ==
    /\ call.fn = "tasks"
    /\ Len(SelectSeq(call.ops, LAMBDA o : o.op = "update")) < MaxUpdates
    /\ \E task_id \in TaskIds, args \in UpdateArgs :
         call' = [call EXCEPT
                    !.tasks = update_task_status(@, task_id, args.status,
                                  args.result, args.error, Len(call.ops)),
                    !.ops = Append(@, Op("update", task_id, "", <<>>,
                                         args.status, args.result,
                                         args.error)),
                    !.out = Pending]
    /\ UNCHANGED engine

\* get_task_status(task_id); out holds the id asked for and the answer
\* until the next call changes the registry.
GetTaskStatus ==
    /\ call.fn = "tasks"
    /\ call.out = Pending
    /\ \E task_id \in TaskIds :
         call' = [call EXCEPT
                    !.out = [kind |-> "answer", task_id |-> task_id,
                             status |-> get_task_status(call.tasks, task_id)]]
    /\ UNCHANGED engine

\* The coroutine c sends the GET of url and is suspended.
Get(c, url, at) ==
    /\ fetchCount' = client_get(fetchCount, url)
    /\ call' = [call EXCEPT !.fetched[c] = @ \cup {url},
                            !.coroutines[c].at = at]

\* parse_sitemap_url of the root: the GET, with no test of
\* processed_indices before it.
GatherFetchRoot(c) ==
    /\ call.fn = "gather"
    /\ call.coroutines[c].at = "start"
    /\ Get(c, call.coroutines[c].root, "get root")
    /\ UNCHANGED <<closed, pc, probe, max_depth, stack, retval, site,
                   processed_indices, discovered_urls, result, returned>>

\* The root's response arrives: it is an index and max_depth is 1, so
\* process_sitemap_index starts on its locations.
GatherRootFetched(c) ==
    /\ call.fn = "gather"
    /\ call.coroutines[c].at = "get root"
    /\ call' = [call EXCEPT !.coroutines[c].at = "loop",
                            !.coroutines[c].i = 1]
    /\ UNCHANGED engine

\* process_sitemap_index: the reference is in processed_indices; continue.
GatherSkip(c) ==
    LET co == call.coroutines[c]
        sitemaps == call.refs[co.root]
    IN  /\ call.fn = "gather"
        /\ co.at = "loop" /\ co.i <= Len(sitemaps)
        /\ AlreadyProcessed(sitemaps[co.i], processed_indices)
        /\ call' = [call EXCEPT !.coroutines[c].i = NextReference(@)]
        /\ UNCHANGED engine

\* process_sitemap_index: the reference is not in processed_indices; it is
\* added and parse_sitemap_url sends its GET, all without a suspension.
GatherFollow(c) ==
    LET co == call.coroutines[c]
        sitemaps == call.refs[co.root]
    IN  /\ call.fn = "gather"
        /\ co.at = "loop" /\ co.i <= Len(sitemaps)
        /\ ~AlreadyProcessed(sitemaps[co.i], processed_indices)
        /\ processed_indices' = add(processed_indices, sitemaps[co.i])
        /\ Get(c, sitemaps[co.i], "get reference")
        /\ UNCHANGED <<closed, pc, probe, max_depth, stack, retval, site,
                       discovered_urls, result, returned>>

\* The response of a reference arrives and the loop moves on.
GatherReferenceFetched(c) ==
    /\ call.fn = "gather"
    /\ call.coroutines[c].at = "get reference"
    /\ call' = [call EXCEPT !.coroutines[c].at = "loop",
                            !.coroutines[c].i = NextReference(@)]
    /\ UNCHANGED engine

\* process_sitemap_index and parse_sitemap_url return.
GatherReturn(c) ==
    LET co == call.coroutines[c]
    IN  /\ call.fn = "gather"
        /\ co.at = "loop" /\ co.i > Len(call.refs[co.root])
        /\ call' = [call EXCEPT !.coroutines[c].at = "returned"]
        /\ UNCHANGED engine

\* The event loop resumes one coroutine that is ready to run.
Gather ==
    \E c \in Coroutines :
        \/ GatherFetchRoot(c)
        \/ GatherRootFetched(c)
        \/ GatherSkip(c)
        \/ GatherFollow(c)
        \/ GatherReferenceFetched(c)
        \/ GatherReturn(c)

CallNext ==
    \/ CallParseSitemapXml
    \/ CallExtractSitemapLocations
    \/ CallHandleGzipSitemap
    \/ CallParseSitemapUrl
    \/ DiscoverHead
    \/ DiscoverRobotsTxt
    \/ CallParseUnderLimit
    \/ AppPost
    \/ RouteParseSitemap
    \/ RunParseSitemapTask
    \/ CreateTask
    \/ UpdateTaskStatus
    \/ GetTaskStatus
    \/ Gather

CallSpec == CallInit /\ [][CallNext]_vars

Returned(fn) == call.fn = fn /\ call.out # Pending

\* ------------------------------------------------------------ properties
NonRoot == Urls \ {RootUrl}
Done == pc = "done"
RefsOf(url) == SeqToSet(site[url].refs)
\* The URLs parse_sitemap_xml extracts from what url serves.
UrlsOf(url) ==
    IF site[url].kind = "urlset" THEN parse_sitemap_xml(site[url], url)
    ELSE <<>>
\* The extracted URLs of the given references, concatenated in order.
RECURSIVE UrlsOfAll(_)
UrlsOfAll(refs) ==
    IF refs = <<>> THEN <<>> ELSE UrlsOf(Head(refs)) \o UrlsOfAll(Tail(refs))
Calls == {returned[k] : k \in 1..Len(returned)}
IndexCalls == {r \in Calls : r.kind = "sitemapindex"}
\* How many references below the root a call was made.
Hops(r) == max_depth - r.max_depth
Failed == {u \in Urls : site[u] = FailDoc}

\* C1: within one resolution every sitemap URL, the root included, is
\* fetched at most once.
C1_EveryUrlFetchedAtMostOnce == \A u \in Urls : fetchCount[u] <= 1

\* C2: under fair scheduling every resolution eventually returns, whatever
\* the reference graph (cycles included) and whatever max_depth.
C2_ResolutionReturns == <>Done

\* A resolution has returned after following a cycle root -> u -> root.
C2_CycleResolved ==
    /\ Done
    /\ \E u \in NonRoot :
         /\ site[u].kind = "sitemapindex" /\ RootUrl \in RefsOf(u)
         /\ site[RootUrl].kind = "sitemapindex" /\ u \in RefsOf(RootUrl)
         /\ \E r \in Calls : r.url = u /\ r.followed # <<>>

\* C3: the number of page URLs returned by one resolution never exceeds the
\* configured ceiling.
C3_TotalWithinCeiling == Len(result.urls) <= MAX_URLS_PER_SITEMAP

\* C4: a failure of one sitemap referenced by the root index does not abort
\* the resolution or its siblings: the resolution succeeds, every sitemap
\* the root references has been requested, and the result holds exactly the
\* URLs of the sitemaps that resolved.
C4_SiblingsSurviveFailure ==
    (Done /\ site[RootUrl].kind = "sitemapindex" /\ max_depth > 0) =>
        /\ result.status = "success"
        /\ \A c \in RefsOf(RootUrl) :
             /\ site[c] # Unfetched
             /\ SeqToSet(UrlsOf(c)) \subseteq SeqToSet(result.urls)
        /\ SeqToSet(result.urls) = UNION {SeqToSet(UrlsOf(u)) : u \in Urls}

\* The root references a sitemap that fails and then a leaf of two URLs,
\* and the resolution has returned those two URLs.
C4_FailedSiblingThenLeaf ==
    /\ Done /\ site[RootUrl].kind = "sitemapindex"
    /\ Len(site[RootUrl].refs) = 2
    /\ site[site[RootUrl].refs[1]] = FailDoc
    /\ site[site[RootUrl].refs[2]].kind = "urlset"
    /\ site[site[RootUrl].refs[2]].entries = 2
    /\ Len(result.urls) = 2

\* C5: when the root document cannot be fetched, decoded or parsed the
\* result reports failure: status is not "success", error is set and urls
\* is empty.
C5_RootFailureReported ==
    (Done /\ site[RootUrl] = FailDoc) =>
        /\ result.status # "success"
        /\ result.error # None
        /\ result.urls = <<>>

\* C6 as stated: with depth budget d, an index d+1 references below the
\* root contributes nothing, while an index d references below the root
\* has its references fetched and contributes the URLs of its leaves.
C6_IndexAtBudgetContributes ==
    max_depth >= 0 =>
        \A r \in IndexCalls :
            /\ Hops(r) = max_depth + 1 => r.urls = <<>>
            /\ Hops(r) = max_depth =>
                 \A c \in RefsOf(r.url) :
                    /\ site[c] # Unfetched
                    /\ SeqToSet(UrlsOf(c)) \subseteq SeqToSet(r.urls)

\* C6 amended: with depth budget d no sitemap is requested more than d
\* references below the root; an index d references below the root follows
\* no reference and contributes nothing; an index d-1 references below the
\* root has every reference visited and contributes exactly the URLs of
\* the references it followed.
C6_DepthBoundary ==
    max_depth >= 0 =>
        /\ \A r \in Calls : Hops(r) <= max_depth
        /\ \A r \in IndexCalls :
            /\ Hops(r) = max_depth => r.urls = <<>> /\ r.followed = <<>>
            /\ Hops(r) = max_depth - 1 =>
                 /\ RefsOf(r.url) \subseteq processed_indices
                 /\ r.urls = UrlsOfAll(r.followed)

\* An index at the depth limit returned nothing although it has
\* references, and an index one level above it returned URLs.
C6_BothSidesOfLimit ==
    /\ max_depth >= 1
    /\ \E r \in IndexCalls :
         Hops(r) = max_depth /\ site[r.url].refs # <<>> /\ r.urls = <<>>
    /\ \E r \in IndexCalls :
         Hops(r) = max_depth - 1 /\ r.followed # <<>> /\ r.urls # <<>>

\* C7: a sitemap other than the root that several indexes reference is
\* fetched once and its URLs are appended to the result once.
C7_DiamondCountedOnce ==
    /\ \A u \in NonRoot : fetchCount[u] <= 1
    /\ \A i, j \in 1..Len(result.urls) :
         result.urls[i] = result.urls[j] => i = j

\* A leaf referenced by the root and by a second index, which followed it,
\* has been resolved and the resolution has returned its URLs.
C7_DiamondResolved ==
    /\ Done
    /\ \E a, u \in NonRoot :
         /\ a # u /\ site[u].kind = "urlset" /\ site[u].entries > 0
         /\ u \in RefsOf(RootUrl) /\ a \in RefsOf(RootUrl)
         /\ \E r \in IndexCalls : r.url = a /\ u \in SeqToSet(r.followed)
         /\ fetchCount[u] = 1
         /\ SeqToSet(UrlsOf(u)) \subseteq SeqToSet(result.urls)

\* C8: once the URLs collected by a resolution have reached the ceiling no
\* further sitemap is requested.
C8_NoFetchAfterCeiling ==
    [][Cardinality(discovered_urls) >= MAX_URLS_PER_SITEMAP
          => fetchCount' = fetchCount]_vars

\* C9: the result tells the caller that a sitemap other than the root has
\* failed: it carries an error whenever such a sitemap failed.
C9_BranchErrorsReported ==
    (Done /\ Failed \cap NonRoot # {}) => result.error # None

\* C10: no failure of the fetch, the decompression or the XML parse leaves
\* parse_sitemap_url as an exception, at any recursion level.
C10_NoExceptionEscapes == retval.kind # "raise"

\* A nested parse_sitemap_url has handled a decompression failure and
\* returned the empty list to process_sitemap_index.
C10_NestedFailureHandled ==
    /\ retval.kind = "return" /\ retval.failure = "gzip"
    /\ retval.urls = <<>>
    /\ stack # <<>> /\ Top.fn = "process_sitemap_index"

\* A well-formed <urlset> without elements.
EmptyUrlset == [wellformed |-> TRUE, root |-> "urlset", elems |-> <<>>]

\* C11: extracting from markup that is not well-formed XML ends in an
\* outcome that differs from the outcome of a well-formed document without
\* entries.
C11_MalformedDistinguished ==
    (Returned("parse_sitemap_xml") /\ ~call.xml.wellformed)
        => call.out # Return(ParseSitemapXml(EmptyUrlset, call.base_url))

\* The hint that makes parse_sitemap_url decompress the content.
GzipHint == call.url.gz \/ call.response.content_encoding = "gzip"
\* The content is a gzip stream of UTF-8 text.
Decodable(content) ==
    /\ GzipDecompress(content).ok
    /\ Utf8Decode(GzipDecompress(content).bytes).ok
Fetched == Returned("parse_sitemap_url") /\ call.response.status_code = 200

\* C12: when the compression hint is true and the content cannot be
\* decoded, parse_sitemap_url ends in the handled decompression failure
\* with no URL and no nested call; the raw bytes are not parsed as text.
C12_NoFallbackToRawBytes ==
    (Fetched /\ GzipHint /\ ~Decodable(call.response.content))
        => call.out = Handled("gzip")

\* The markup of a urlset with an entry, uncompressed, was served at a URL
\* ending in .gz and nothing was extracted from it.
C12_PlainMarkupAtGzUrl ==
    /\ Fetched /\ call.url.gz
    /\ call.response.content = Utf8Encode(<<60>>)
    /\ call.xml.root = "urlset"
    /\ ParseSitemapXml(call.xml, call.url) # <<>>
    /\ call.out.urls = <<>> /\ call.out.failure = "gzip"

\* C13: a fetched document whose root is neither urlset nor sitemapindex
\* contributes no page URL and no followed reference, whatever it contains.
C13_UnknownRootContributesNothing ==
    (/\ Fetched /\ call.out \notin {Handled("gzip"), Handled("xml")}
     /\ call.xml.root \notin {"urlset", "sitemapindex"})
        => call.out = Return(<<>>)

\* The same document with every element in the sitemap namespace.
InStandardNamespace(xml) ==
    [xml EXCEPT !.elems =
        [k \in DOMAIN xml.elems |-> [xml.elems[k] EXCEPT !.ns = SitemapNs]]]

\* C14: elements are matched by local name, so a document yields the same
\* locations as the same document in the standard namespace.
C14_MatchedByLocalName ==
    /\ Returned("parse_sitemap_xml") =>
           call.out.urls =
               ParseSitemapXml(InStandardNamespace(call.xml), call.base_url)
    /\ Returned("_extract_sitemap_locations") =>
           call.out.urls =
               ExtractSitemapLocations(InStandardNamespace(call.root))

\* The positions of the <url> entries of a document.
EntryPositions(xml) ==
    SelectSeq([k \in 1..Len(xml.elems) |-> k],
              LAMBDA k : Qualified(xml.elems[k], "url"))
\* The location of the entry at position k: an absolute loc as it stands, a
\* relative one joined to the base URL.
LocationOf(xml, base_url, k) ==
    IF xml.elems[k].loc = "abs" THEN LocText(xml.elems[k], k)
    ELSE urljoin(base_url, LocText(xml.elems[k], k))
\* The locations of the entries that have a loc, in document order.
RECURSIVE LocationsOf(_, _, _)
LocationsOf(xml, base_url, positions) ==
    IF positions = <<>> THEN <<>>
    ELSE (IF HasLocText(xml.elems[Head(positions)])
          THEN <<LocationOf(xml, base_url, Head(positions))>> ELSE <<>>)
         \o LocationsOf(xml, base_url, Tail(positions))
FirstN(s, n) == SubSeq(s, 1, IF Len(s) < n THEN Len(s) ELSE n)

\* C15: the result of a leaf document is exactly the locations of the
\* entries that have a loc, in document order, up to the ceiling; entries
\* without a loc are skipped.
C15_EntriesWithLocExtracted ==
    (Returned("parse_sitemap_xml") /\ call.xml.wellformed)
        => call.out.urls =
               FirstN(LocationsOf(call.xml, call.base_url,
                                  EntryPositions(call.xml)),
                      MAX_URLS_PER_SITEMAP)

\* C16: a urlset whose k entries all have a loc, k below the ceiling,
\* yields k URLs: entry by entry the absolute loc unchanged or the
\* relative loc joined to the base URL.
C16_OneUrlPerEntry ==
    LET entries == EntryPositions(call.xml)
    IN  (/\ Returned("parse_sitemap_xml") /\ call.xml.wellformed
         /\ \A i \in 1..Len(entries) : HasLocText(call.xml.elems[entries[i]])
         /\ Len(entries) < MAX_URLS_PER_SITEMAP)
            => /\ Len(call.out.urls) = Len(entries)
               /\ \A i \in 1..Len(entries) :
                      call.out.urls[i] =
                          LocationOf(call.xml, call.base_url, entries[i])

\* The references of an index served at url, each resolved against url.
RECURSIVE ResolvedReferences(_, _, _)
ResolvedReferences(xml, url, k) ==
    IF k > Len(xml.elems) THEN <<>>
    ELSE (IF Qualified(xml.elems[k], "sitemap") /\ HasLocText(xml.elems[k])
          THEN <<urljoin(url, LocText(xml.elems[k], k))>> ELSE <<>>)
         \o ResolvedReferences(xml, url, k + 1)

\* C17: the references handed to process_sitemap_index are the locs of the
\* <sitemap> elements that have one, in document order, each resolved
\* against the URL of the index.
C17_ReferencesResolved ==
    (Fetched /\ call.out.kind = "await")
        => call.out.sitemaps = ResolvedReferences(call.xml, call.url, 1)

\* The same request answered with the uncompressed markup at the URL
\* without the .gz suffix.
Uncompressed(c) ==
    [c EXCEPT !.url.gz = FALSE, !.response.content_encoding = None,
              !.response.content = Utf8Encode(<<60>>)]

Discovering == call.fn = "discover_sitemap"
\* The requests answered with status 200.
Hits ==
    {k \in 1..Len(call.requests) :
        call.requests[k].method = "HEAD" /\ call.requests[k].answer = "200"}

\* C19: discovery probes /sitemap.xml, /sitemap_index.xml, /sitemap.xml.gz,
\* /sitemap/sitemap.xml in this order on the scheme and host of the site;
\* it returns the first path answered with status 200 and sends nothing
\* after it; a probe that raises or has another status is a miss after
\* which the next path is probed.
C19_ProbesInOrderUntilHit ==
    Discovering =>
        LET paths == <<"/sitemap.xml", "/sitemap_index.xml",
                       "/sitemap.xml.gz", "/sitemap/sitemap.xml">>
            probes == SelectSeq(call.requests, LAMBDA r : r.method = "HEAD")
        IN  /\ Len(probes) <= 4
            /\ \A k \in 1..Len(probes) :
                   /\ call.requests[k] = probes[k]
                   /\ probes[k].url = [scheme |-> call.base_url.scheme,
                                       netloc |-> call.base_url.netloc,
                                       path |-> paths[k]]
            /\ \A k \in Hits :
                   /\ k = Len(call.requests)
                   /\ call.out = Discovered(<<call.requests[k].url>>)
            /\ (Hits = {} /\ call.out = Pending) =>
                   call.i = Len(call.requests) + 1
            /\ (Hits = {} /\ call.out # Pending) => Len(probes) = 4

\* The third path was found after the first probe raised and the second
\* had another status; no request followed.
C19_ThirdPathAfterRaise ==
    /\ Discovering /\ Len(call.requests) = 3
    /\ call.requests[1].answer = "raises"
    /\ call.requests[2].answer = "404"
    /\ call.requests[3].answer = "200"
    /\ call.out.kind = "return"
    /\ call.out.sitemap_url =
           <<[call.base_url EXCEPT !.path = "/sitemap.xml.gz"]>>

\* A line that starts with the sitemap directive in any letter case.
IsDirective(line) == line.key \in {"Sitemap", "sitemap", "SITEMAP"}
RECURSIVE FirstDirective(_)
FirstDirective(lines) ==
    IF lines = <<>> THEN <<>>
    ELSE IF IsDirective(Head(lines)) THEN <<Head(lines).url>>
    ELSE FirstDirective(Tail(lines))

\* C20: robots.txt is requested only after all four conventional paths
\* have failed; discovery then returns the URL of the first line that
\* starts with the sitemap directive, in any letter case.
C20_RobotsAfterAllPaths ==
    Discovering =>
        \A k \in 1..Len(call.requests) :
            call.requests[k].method = "GET" =>
                /\ k = 5
                /\ \A j \in 1..4 :
                       /\ call.requests[j].method = "HEAD"
                       /\ call.requests[j].answer # "200"
                /\ call.requests[k].url =
                       [call.base_url EXCEPT !.path = "/robots.txt"]
                /\ call.requests[k].answer = "200" =>
                       call.out =
                           Discovered(FirstDirective(call.requests[k].text))

\* robots.txt held two directives in different letter case for different
\* URLs, the first of them padded with white space; the first one won.
C20_FirstDirectiveWins ==
    /\ Discovering /\ Len(call.requests) = 5
    /\ call.requests[5].answer = "200"
    /\ Len(call.requests[5].text) = 2
    /\ call.requests[5].text[1].key = "SITEMAP"
    /\ call.requests[5].text[1].pad
    /\ call.requests[5].text[2].key = "Sitemap"
    /\ call.requests[5].text[1].url # call.requests[5].text[2].url
    /\ call.out = Discovered(<<call.requests[5].text[1].url>>)

C30_BudgetDiscipline ==
    max_depth >= 0 =>
        /\ \A k \in 1..Len(stack) : stack[k].max_depth >= 0
        /\ \A k \in 1..Len(stack) :
              (stack[k].fn = "parse_sitemap_url" /\ k + 2 <= Len(stack)) =>
                  /\ stack[k + 1].fn = "process_sitemap_index"
                  /\ stack[k + 2].fn = "parse_sitemap_url"
                  /\ stack[k + 2].max_depth = stack[k].max_depth - 1
        /\ \A r \in Calls :
              /\ r.max_depth >= 0
              /\ r.kind = "urlset" => r.urls = UrlsOf(r.url)
              /\ (r.kind = "sitemapindex" /\ r.max_depth = 0) =>
                    r.urls = <<>> /\ r.followed = <<>>
        /\ (retval.kind = "return" /\ returned # <<>>
              /\ returned[Len(returned)].kind = "sitemapindex"
              /\ returned[Len(returned)].max_depth = 0) =>
                 retval = Return(<<>>)

\* With a top-level budget of at least 1, a leaf fetched with budget 0 has
\* contributed a URL and an index with references, fetched with budget 0,
\* has returned the empty list.
C30_LeafAndIndexAtZero ==
    /\ max_depth >= 1
    /\ \E r \in Calls :
         r.kind = "urlset" /\ r.max_depth = 0 /\ r.urls # <<>>
    /\ \E r \in IndexCalls :
         r.max_depth = 0 /\ site[r.url].refs # <<>> /\ r.urls = <<>>

\* C22: a second resolution of the same root through the same parser,
\* against the unchanged site, returns the URL list the first one returned.
C22_SameListBothTimes ==
    (call.fn = "resolve_again" /\ pc = "parsing" /\ stack = <<>>
        /\ retval.kind = "return") =>
            retval.urls = call.first

\* C23: once the resolution is cancelled during a request, the call has
\* returned a result that holds the URLs collected so far.
C23_CancelReturnsPartial ==
    call.fn = "cancel" =>
        /\ pc = "done" /\ result.completed
        /\ call.collected \subseteq SeqToSet(result.urls)

\* C25: whatever non-negative value MAX_URLS_PER_SITEMAP is set to,
\* parse_sitemap_xml returns at most that many URLs of one document, and
\* they are the first locations of the document in order.
C25_AtMostLimitFirstInOrder ==
    Returned("parse_sitemap_xml under limit") =>
        /\ Len(call.out.urls) <= call.limit
        /\ call.out.urls =
              FirstN(LocationsOf(call.xml, call.base_url,
                                 EntryPositions(call.xml)),
                     Len(call.out.urls))

\* A parse request was answered, by the application or by the route
\* function.
Answered == call.fn \in {"POST", "sitemap.parse_sitemap"} /\ call.out # Pending

\* C26: a parse request whose max_depth lies outside 1..10 is answered
\* with 422 and enqueues no task, and the max_depth of an enqueued task is
\* the one the client supplied, within 1..10.
C26_DepthValidated ==
    Answered =>
        /\ (/\ call.request.max_depth # <<>>
            /\ call.request.max_depth[1] \notin 1..MaxAllowedDepth)
               => call.out.status_code = 422 /\ call.out.enqueued = <<>>
        /\ call.out.enqueued # <<>> =>
              /\ call.out.enqueued[1].max_depth \in 1..MaxAllowedDepth
              /\ call.request.max_depth # <<>> =>
                    call.out.enqueued[1].max_depth = call.request.max_depth[1]

\* C27: the resolution a task runs follows the references of an index
\* when the request's follow_nested is true and follows none when it is
\* false.
C27_FollowNestedHonoured ==
    (Answered /\ call.out.resolution # <<>>
        /\ call.request.follow_nested # <<>>) =>
            (MayRecurse(max_depth) <=> call.request.follow_nested[1])

\* The last call made on the registry was create_task.
Created ==
    /\ call.fn = "tasks"
    /\ Len(call'.ops) = Len(call.ops) + 1
    /\ call'.ops[Len(call'.ops)].op = "create"

\* C28: create_task registers a task under an id no task had, with the
\* given url and config, status "pending", result None and error None; it
\* leaves every task registered before as it was; and get_task_status of
\* the new id returns that id with status "pending".
C28_CreateRegistersPending ==
    [][Created =>
        LET o == call'.ops[Len(call'.ops)]
            task == call'.tasks[o.id]
        IN  /\ o.id \notin DOMAIN call.tasks
            /\ DOMAIN call'.tasks = DOMAIN call.tasks \cup {o.id}
            /\ task.id = o.id /\ task.url = o.url /\ task.config = o.config
            /\ task.status = "pending"
            /\ task.result = None /\ task.error = None
            /\ \A t \in DOMAIN call.tasks : call'.tasks[t] = call.tasks[t]
            /\ get_task_status(call'.tasks, o.id).kind = "status"
            /\ get_task_status(call'.tasks, o.id).id = o.id
            /\ get_task_status(call'.tasks, o.id).status = "pending"]_vars

\* A second task was created after the first was updated, and
\* get_task_status of the second answered "pending" while the first keeps
\* its updated status.
C28_SecondTaskPending ==
    /\ call.fn = "tasks"
    /\ Len(call.ops) = 3
    /\ call.ops[1].op = "create" /\ call.ops[2].op = "update"
    /\ call.ops[2].id = call.ops[1].id
    /\ call.ops[3].op = "create"
    /\ call.tasks[call.ops[1].id].status = call.ops[2].status
    /\ call.out # Pending
    /\ call.out.task_id = call.ops[3].id
    /\ call.out.status.status = "pending"

\* The update_task_status calls made on task_id since it was created.
RECURSIVE CreatedAt(_, _)
CreatedAt(task_id, k) ==
    IF call.ops[k].op = "create" /\ call.ops[k].id = task_id THEN k
    ELSE CreatedAt(task_id, k + 1)
UpdatesOf(task_id) ==
    SelectSeq(SubSeq(call.ops, CreatedAt(task_id, 1) + 1, Len(call.ops)),
              LAMBDA o : o.op = "update" /\ o.id = task_id)
\* The last value of a sequence that is not None, None when there is none.
RECURSIVE LastNotNone(_)
LastNotNone(values) ==
    IF values = <<>> THEN None
    ELSE IF values[Len(values)] # None THEN values[Len(values)]
    ELSE LastNotNone(SubSeq(values, 1, Len(values) - 1))

\* C29: get_task_status of a registered task returns the status of the
\* most recent update_task_status call on it, and the most recent result
\* and the most recent error that were passed and were not None.
C29_LatestUpdateReported ==
    (call.fn = "tasks" /\ call.out # Pending
        /\ call.out.task_id \in DOMAIN call.tasks) =>
        LET updates == UpdatesOf(call.out.task_id)
            n == Len(updates)
        IN  /\ call.out.status.kind = "status"
            /\ call.out.status.id = call.out.task_id
            /\ call.out.status.status =
                  IF n = 0 THEN "pending" ELSE updates[n].status
            /\ call.out.status.result =
                  LastNotNone([k \in 1..n |-> updates[k].result])
            /\ call.out.status.error =
                  LastNotNone([k \in 1..n |-> updates[k].error])

\* A task was updated with a result and then with result None and another
\* status: get_task_status answers the later status and the earlier result.
C29_ResultKeptAcrossUpdate ==
    /\ call.fn = "tasks" /\ call.out # Pending
    /\ call.out.task_id \in DOMAIN call.tasks
    /\ LET updates == UpdatesOf(call.out.task_id)
       IN  /\ Len(updates) = 2
           /\ updates[1].result = "{}" /\ updates[2].result = None
           /\ updates[1].status # updates[2].status
           /\ call.out.status.status = updates[2].status
           /\ call.out.status.result = "{}"

\* The URLs some root of the two coroutines references.
Referenced ==
    UNION {SeqToSet(call.refs[call.coroutines[c].root]) : c \in Coroutines}

\* C24: whatever the interleaving of two traversal coroutines that share
\* one parser, no URL that an index references is fetched by both.
C24_NoReferenceFetchedByTwo ==
    call.fn = "gather" =>
        \A u \in Referenced : ~(u \in call.fetched[1] /\ u \in call.fetched[2])

\* C31: every entry of a leaf document that has a loc contributes its
\* URL, up to the ceiling, whatever its priority holds, and the entries
\* after it are still extracted.
C31_MetadataTakenVerbatim ==
    (Returned("parse_sitemap_xml") /\ call.xml.wellformed) =>
        SeqToSet(FirstN(LocationsOf(call.xml, call.base_url,
                                    EntryPositions(call.xml)),
                        MAX_URLS_PER_SITEMAP))
            \subseteq SeqToSet(call.out.urls)

\* The number of GET requests issued for the URLs 1..n.
RECURSIVE Gets(_)
Gets(n) == IF n = 0 THEN 0 ELSE fetchCount[n] + Gets(n - 1)
\* The parse_sitemap_url calls in progress that are past their GET.
PastGet ==
    {k \in 1..Len(stack) :
        stack[k].fn = "parse_sitemap_url" /\ stack[k].i # 0}

InFlight ==
    {k \in 1..Len(stack) :
        stack[k].fn = "parse_sitemap_url" /\ stack[k].i = 0}
\* The list returned by the call on url that returned last before the
\* p-th return.
RECURSIVE ListBefore(_, _)
ListBefore(p, url) ==
    IF p = 1 THEN <<>>
    ELSE IF returned[p - 1].url = url THEN returned[p - 1].urls
    ELSE ListBefore(p - 1, url)
\* The lists of the references an index followed, concatenated in order.
RECURSIVE ChildrenLists(_, _)
ChildrenLists(p, followed) ==
    IF followed = <<>> THEN <<>>
    ELSE ListBefore(p, Head(followed)) \o ChildrenLists(p, Tail(followed))

\* C33: at most one GET is in flight, issued by the innermost call; while
\* a reference of an index is resolved, the call above the index is the
\* one on the reference the loop stands at, so that no later sibling is
\* requested before it returned; and the list an index returns is the
\* concatenation of the lists its references returned, in reference order.
C33_SequentialInDocumentOrder ==
    /\ Cardinality(InFlight) <= 1
    /\ InFlight \subseteq {Len(stack)}
    /\ \A k \in 1..Len(stack) :
          stack[k].fn = "process_sitemap_index" =>
              /\ stack[k].followed =
                    SelectSeq(stack[k].followed,
                              LAMBDA u : u \in SeqToSet(stack[k].sitemaps))
              /\ k < Len(stack) =>
                    /\ stack[k + 1].fn = "parse_sitemap_url"
                    /\ stack[k + 1].url = stack[k].sitemaps[stack[k].i]
                    /\ stack[k + 1].url =
                          stack[k].followed[Len(stack[k].followed)]
    /\ \A p \in 1..Len(returned) :
          returned[p].kind = "sitemapindex" =>
              returned[p].urls = ChildrenLists(p, returned[p].followed)

\* An index has returned the URLs of two leaves it references, those of
\* the first reference first.
C33_TwoChildrenInOrder ==
    \E p \in 1..Len(returned) :
        /\ returned[p].kind = "sitemapindex"
        /\ Len(returned[p].followed) = 2
        /\ UrlsOf(returned[p].followed[1]) # <<>>
        /\ UrlsOf(returned[p].followed[2]) # <<>>
        /\ returned[p].urls = UrlsOf(returned[p].followed[1])
                                \o UrlsOf(returned[p].followed[2])

\* The URLs that some path of at most d references leads to from the
\* root, through the indexes fetched so far.
RECURSIVE Within(_)
Within(d) ==
    IF d <= 0 THEN {RootUrl}
    ELSE Within(d - 1) \cup UNION {RefsOf(u) : u \in Within(d - 1)}

\* C34: when no fetch failed and the ceiling was not reached, every
\* sitemap that some path of at most max_depth references leads to from
\* the root was fetched, and the URLs of every such leaf are in the
\* result, in whatever order the indexes list their references.
C34_EveryLeafWithinDepthContributes ==
    (Done /\ site[RootUrl] # Unfetched /\ max_depth >= 0 /\ Failed = {}
        /\ Len(result.urls) < MAX_URLS_PER_SITEMAP) =>
        \A u \in Within(max_depth) :
            /\ site[u] # Unfetched
            /\ SeqToSet(UrlsOf(u)) \subseteq SeqToSet(result.urls)

\* C35: a reference is in processed_indices before its fetch is attempted
\* (every call of parse_sitemap_url below the root's is for a URL of the
\* set, and the set holds each followed reference from the step that
\* follows it), the set only grows during a resolution, and a sitemap
\* other than the root whose fetch or parse failed is not requested again.
C35_VisitedBeforeFetchAndKept ==
    [][/\ processed_indices \subseteq processed_indices'
       /\ \A k \in 2..Len(stack') :
            stack'[k].fn = "parse_sitemap_url" =>
                stack'[k].url \in processed_indices'
       /\ \A u \in NonRoot :
            fetchCount'[u] > fetchCount[u] => u \in processed_indices
       /\ \A u \in Failed \cap NonRoot :
            /\ u \in processed_indices
            /\ fetchCount'[u] = fetchCount[u]
            /\ site'[u] = FailDoc]_vars

\* C35 witness: the resolution is over, a sitemap that two indexes
\* reference failed, and both indexes were resolved after it.
C35_FailedReferenceMetAgain ==
    /\ Done
    /\ \E u \in Failed \cap NonRoot :
          /\ Cardinality({v \in Urls : u \in RefsOf(v)}) >= 2
          /\ fetchCount[u] = 1
          /\ u \in processed_indices

C37_ParserClosedOnce == Done => closed = 1

\* A step that is a call of update_task_status, and its arguments.
Updated ==
    /\ call.fn = "tasks"
    /\ Len(call'.ops) = Len(call.ops) + 1
    /\ call'.ops[Len(call'.ops)].op = "update"
LastOp == call'.ops[Len(call'.ops)]

\* C38: update_task_status with an id that was never created leaves the
\* registry as it was, get_task_status of an unknown id returns None, and
\* no call removes a task or changes its id, url, config or created_at.
C38_UnknownIdsAndIdentityKept ==
    [][/\ (Updated /\ LastOp.id \notin DOMAIN call.tasks) =>
              call'.tasks = call.tasks
       /\ (call.fn = "tasks" /\ call'.out # Pending
             /\ call'.out.task_id \notin DOMAIN call'.tasks) =>
              call'.out.status = NoStatus
       /\ call.fn = "tasks" =>
              /\ DOMAIN call.tasks \subseteq DOMAIN call'.tasks
              /\ \A t \in DOMAIN call.tasks :
                    /\ call'.tasks[t].id = call.tasks[t].id
                    /\ call'.tasks[t].url = call.tasks[t].url
                    /\ call'.tasks[t].config = call.tasks[t].config
                    /\ call'.tasks[t].created_at = call.tasks[t].created_at]_vars

\* C38 witness: one task was created and updated, the other id was
\* updated without having been created and is still unknown, and
\* get_task_status of it answered None.
C38_UnknownIdUpdatedThenAsked ==
    /\ call.fn = "tasks"
    /\ Cardinality(DOMAIN call.tasks) = 1
    /\ \E k \in 1..Len(call.ops) :
          /\ call.ops[k].op = "update"
          /\ call.ops[k].id \notin DOMAIN call.tasks
    /\ \E k \in 1..Len(call.ops) :
          /\ call.ops[k].op = "update"
          /\ call.ops[k].id \in DOMAIN call.tasks
    /\ call.out # Pending
    /\ call.out.task_id \notin DOMAIN call.tasks
    /\ call.out.status = NoStatus

\* C39: update_task_status with result None leaves the stored result as
\* it was and with error None leaves the stored error as it was, so that
\* no call makes a stored result or a stored error None again, whatever
\* the status it sets.
C39_NoneNeverClears ==
    [][/\ (Updated /\ LastOp.id \in DOMAIN call.tasks) =>
              /\ LastOp.result = None =>
                    call'.tasks[LastOp.id].result = call.tasks[LastOp.id].result
              /\ LastOp.error = None =>
                    call'.tasks[LastOp.id].error = call.tasks[LastOp.id].error
              /\ call'.tasks[LastOp.id].status = LastOp.status
       /\ call.fn = "tasks" =>
              \A t \in DOMAIN call.tasks :
                  /\ call.tasks[t].result # None => call'.tasks[t].result # None
                  /\ call.tasks[t].error # None => call'.tasks[t].error # None]_vars

\* C39 witness: a task failed with an error, was then updated to
\* completed with a result and no error, and get_task_status reports
\* status completed together with the error of the failure.
C39_ErrorOutlivesFailure ==
    /\ call.fn = "tasks" /\ call.out # Pending
    /\ call.out.task_id \in DOMAIN call.tasks
    /\ LET updates == UpdatesOf(call.out.task_id)
       IN  /\ Len(updates) = 2
           /\ updates[1].status = "failed" /\ updates[1].error = "timeout"
           /\ updates[2].status = "completed" /\ updates[2].error = None
           /\ updates[2].result # None
           /\ call.out.status.status = "completed"
           /\ call.out.status.error = "timeout"
           /\ call.out.status.result = updates[2].result

====
